---- MODULE Spec2Model ----
(***************************************************************************)
(* A model of the indoor-localization particle filter: BuildingMap         *)
(* (bmap.py), FeedProcessor (feed_processor.py) and ParticleFilter (pf.py).*)
(*                                                                         *)
(* Conventions.                                                            *)
(*  - Python lists are TLA+ sequences; Python index i is sequence index    *)
(*    i + 1.                                                               *)
(*  - Python floats are exact rationals <<n, d>> (d > 0, lowest terms).    *)
(*  - None is the empty tuple <<>>, a present value v is <<v>>.            *)
(*  - Headings are measured in quarter turns (pi/2 rad), the lattice on    *)
(*    which cos and sin are exact.                                         *)
(***************************************************************************)
EXTENDS Integers, Sequences, FiniteSets, TLC

(***************************************************************************)
(* Bounds of the model.                                                    *)
(***************************************************************************)
MaxLines == 3

MaxCalls == 4

MaxTicks == 2

(***************************************************************************)
(* Exact arithmetic standing for Python's float arithmetic.                *)
(***************************************************************************)
Abs(n) == IF n < 0 THEN -n ELSE n

RECURSIVE GCD(_, _)
GCD(a, b) == IF b = 0 THEN a ELSE GCD(b, a % b)

Rat(n, d) ==
  LET g == GCD(Abs(n), Abs(d))
      s == IF d < 0 THEN -1 ELSE 1
  IN  <<(s * n) \div g, (s * d) \div g>>

Zero == Rat(0, 1)

One == Rat(1, 1)

Half == Rat(1, 2)

RAdd(a, b) == Rat(a[1] * b[2] + b[1] * a[2], a[2] * b[2])

RSub(a, b) == Rat(a[1] * b[2] - b[1] * a[2], a[2] * b[2])

RMul(a, b) == Rat(a[1] * b[1], a[2] * b[2])

\* a / b for b # 0 (callers test for the ZeroDivisionError case first).
RDiv(a, b) == Rat(a[1] * b[2], a[2] * b[1])

RLt(a, b) == a[1] * b[2] < b[1] * a[2]

RLe(a, b) == a[1] * b[2] <= b[1] * a[2]

RMax(a, b) == IF RLt(a, b) THEN b ELSE a

\* Python int(x) on a float: truncation toward zero.
IntOf(r) == IF r[1] >= 0 THEN r[1] \div r[2] ELSE -((-r[1]) \div r[2])

\* abs(x) on a float.
RAbs(r) == <<Abs(r[1]), r[2]>>

\* math.sqrt(x) for an x whose root is rational.
ISqrt(n) == CHOOSE r \in 0..n : r * r = n

RSqrt(q) == <<ISqrt(q[1]), ISqrt(q[2])>>

None == <<>>

Some(v) == <<v>>

(***************************************************************************)
(* BuildingMap (bmap.py).                                                  *)
(***************************************************************************)
NUMBER_OF_REGIONS == 7

VOID_SPACE == 0

HALLWAY == 1

STAIRCASE == 2

\* BuildingMap.__init__ on a file that was read: rows is the parsed grid.
BuildingMapInit(rows) ==
  [ map_data     |-> rows,
    num_rows     |-> Len(rows),
    num_cols     |-> IF Len(rows) > 0 THEN Len(rows[1]) ELSE 0,
    region_probs |-> [i \in 1..NUMBER_OF_REGIONS |->
                        IF i - 1 = VOID_SPACE THEN Zero ELSE One] ]

\* BuildingMap.probability_of(x, y) for integers x, y.
ProbabilityOf(bm, x, y) ==
  IF x < 0 \/ x >= bm.num_cols \/ y < 0 \/ y >= bm.num_rows
    THEN Zero
    ELSE bm.region_probs[bm.map_data[y + 1][x + 1] + 1]

\* probability_of(x, y) raises IndexError: the coordinates pass the range
\* test against num_cols and num_rows, and then row y has no column x or
\* the region found there is no index of region_probs.
ProbabilityOfRaises(bm, x, y) ==
  /\ ~(x < 0 \/ x >= bm.num_cols \/ y < 0 \/ y >= bm.num_rows)
  /\ \/ x >= Len(bm.map_data[y + 1])
     \/ bm.map_data[y + 1][x + 1] >= NUMBER_OF_REGIONS

\* The length test of set_probabilities: TRUE when the call is refused.
SetProbabilitiesRefused(probabilities) ==
  Len(probabilities) # NUMBER_OF_REGIONS - 1

\* set_probabilities writing slot 0 as well (off by one in the range).
SetProbabilitiesFromZero(bm, probabilities) ==
  IF SetProbabilitiesRefused(probabilities)
    THEN bm
    ELSE [bm EXCEPT !.region_probs =
            [i \in 1..NUMBER_OF_REGIONS |->
               IF i <= NUMBER_OF_REGIONS - 1 THEN probabilities[i]
               ELSE bm.region_probs[i]]]

\* BuildingMap.set_probabilities(probabilities): the map afterwards.
SetProbabilities(bm, probabilities) ==
  IF SetProbabilitiesRefused(probabilities)
    THEN bm
    ELSE [bm EXCEPT !.region_probs =
            [i \in 1..NUMBER_OF_REGIONS |->
               IF i - 1 \in 1..(NUMBER_OF_REGIONS - 1) THEN probabilities[i - 1]
               ELSE bm.region_probs[i]]]

(***************************************************************************)
(* FeedProcessor (feed_processor.py).                                      *)
(*                                                                         *)
(* A feed file is a sequence of stripped lines; a line is a prefix ("",    *)
(* "+", "!", "#") and the whitespace-separated tokens after it.  The blank *)
(* line has prefix "" and no tokens.  Tokens are text.                     *)
(***************************************************************************)
\* float(tok) succeeds.
IsFloat(tok) == tok \in {"0", "1", "2", "0.5"}

\* int(tok) succeeds: int("0.5") raises ValueError like int("x").
IsInt(tok) == tok \in {"0", "1", "2"}

\* float(tok) / int(tok) on a token that parses.
NumberOf(tok) ==
  CASE tok = "0"   -> Rat(0, 1)
    [] tok = "1"   -> Rat(1, 1)
    [] tok = "2"   -> Rat(2, 1)
    [] tok = "0.5" -> Rat(1, 2)

\* The attributes set at the top of FeedProcessor.__init__.
FeedEmpty(loop_feed, classifier_noise, motion_noise) ==
  [ probability_list |-> <<>>,
    motions          |-> <<>>,
    ground_truths    |-> <<>>,
    loop_feed        |-> loop_feed,
    classifier_noise |-> classifier_noise,
    motion_noise     |-> motion_noise,
    next_index       |-> 0,
    num_feeds        |-> 0 ]

\* Replace the last element of a non-empty list: lst[-1] = v.
SetLast(lst, v) == [lst EXCEPT ![Len(lst)] = v]

\* The '+' branch appending the motion instead of overwriting the last slot.
ParseMotionLineAppend(f, toks) ==
  IF Len(toks) >= 2
    THEN IF IsInt(toks[1]) /\ IsFloat(toks[2])
           THEN [ raised |-> FALSE,
                  fp |-> [f EXCEPT !.motions =
                            Append(@, Some(<<NumberOf(toks[1]), NumberOf(toks[2])>>))] ]
           ELSE [raised |-> TRUE, fp |-> f]
    ELSE [raised |-> FALSE, fp |-> f]

\* The '+' branch of the parse loop.  raised: int()/float() threw.
ParseMotionLine(f, toks) ==
  IF Len(toks) >= 2
    THEN IF IsInt(toks[1]) /\ IsFloat(toks[2])
           THEN [ raised |-> FALSE,
                  fp |-> IF Len(f.motions) > 0
                           THEN [f EXCEPT !.motions =
                                   SetLast(f.motions,
                                     Some(<<NumberOf(toks[1]), NumberOf(toks[2])>>))]
                           ELSE f ]
           ELSE [raised |-> TRUE, fp |-> f]
    ELSE [raised |-> FALSE, fp |-> f]

\* The '!' branch of the parse loop.
ParseTruthLine(f, toks) ==
  IF Len(toks) >= 3
    THEN IF IsInt(toks[1]) /\ IsInt(toks[2]) /\ IsFloat(toks[3])
           THEN [ raised |-> FALSE,
                  fp |-> IF Len(f.ground_truths) > 0
                           THEN [f EXCEPT !.ground_truths =
                                   SetLast(f.ground_truths,
                                     Some(<<NumberOf(toks[1]), NumberOf(toks[2]),
                                            NumberOf(toks[3])>>))]
                           ELSE f ]
           ELSE [raised |-> TRUE, fp |-> f]
    ELSE [raised |-> FALSE, fp |-> f]

\* The probability-line branch keeping the parsed values whatever
\* ignore_regions says.
ParseProbLineKeepsValues(f, toks, ignore_regions) ==
  IF \A i \in 1..Len(toks) : IsFloat(toks[i])
    THEN [ raised |-> FALSE,
           fp |-> [f EXCEPT
                     !.probability_list =
                        Append(@, [i \in 1..Len(toks) |-> NumberOf(toks[i])]),
                     !.motions = Append(@, None),
                     !.ground_truths = Append(@, None)] ]
    ELSE [raised |-> TRUE, fp |-> f]

\* The probability-line branch of the parse loop (the final else).
ParseProbLine(f, toks, ignore_regions) ==
  IF ignore_regions
    THEN [ raised |-> FALSE,
           fp |-> [f EXCEPT
                     !.probability_list =
                        Append(@, [i \in 1..Len(toks) |-> Rat(1, Len(toks))]),
                     !.motions = Append(@, None),
                     !.ground_truths = Append(@, None)] ]
    ELSE IF \A i \in 1..Len(toks) : IsFloat(toks[i])
           THEN [ raised |-> FALSE,
                  fp |-> [f EXCEPT
                            !.probability_list =
                               Append(@, [i \in 1..Len(toks) |-> NumberOf(toks[i])]),
                            !.motions = Append(@, None),
                            !.ground_truths = Append(@, None)] ]
           ELSE [raised |-> TRUE, fp |-> f]

\* One pass of the body of "for line in f".
ParseLine(f, line, ignore_regions) ==
  IF (line.prefix = "" /\ Len(line.toks) = 0) \/ line.prefix = "#"
    THEN [raised |-> FALSE, fp |-> f]
    ELSE IF line.prefix = "+" THEN ParseMotionLine(f, line.toks)
    ELSE IF line.prefix = "!" THEN ParseTruthLine(f, line.toks)
    ELSE ParseProbLine(f, line.toks, ignore_regions)

\* The two assignments that end __init__ (reached after the except clause
\* too: the handler only logs).
FeedFinish(f) ==
  [f EXCEPT !.next_index = 0, !.num_feeds = Len(f.probability_list)]

\* FeedProcessor.has_next().
HasNext(f) == f.num_feeds > f.next_index

\* get_next without the wrap to index 0.
GetNextNoWrap(f) ==
  IF f.num_feeds > f.next_index
    THEN [ ret |-> << Some(f.probability_list[f.next_index + 1]),
                      f.motions[f.next_index + 1],
                      f.ground_truths[f.next_index + 1] >>,
           fp  |-> [f EXCEPT !.next_index = f.next_index + 1] ]
    ELSE [ret |-> <<None, None, None>>, fp |-> f]

\* get_next wrapping whether or not the feed loops.
GetNextAlwaysWrap(f) ==
  IF f.num_feeds > f.next_index
    THEN [ ret |-> << Some(f.probability_list[f.next_index + 1]),
                      f.motions[f.next_index + 1],
                      f.ground_truths[f.next_index + 1] >>,
           fp  |-> [f EXCEPT !.next_index =
                      IF f.next_index + 1 >= f.num_feeds THEN 0
                      ELSE f.next_index + 1] ]
    ELSE [ret |-> <<None, None, None>>, fp |-> f]

\* FeedProcessor.get_next(): the returned triple and the processor afterwards.
GetNext(f) ==
  IF f.num_feeds > f.next_index
    THEN [ ret |-> << Some(f.probability_list[f.next_index + 1]),
                      f.motions[f.next_index + 1],
                      f.ground_truths[f.next_index + 1] >>,
           fp  |-> [f EXCEPT !.next_index =
                      IF f.next_index + 1 >= f.num_feeds /\ f.loop_feed THEN 0
                      ELSE f.next_index + 1] ]
    ELSE [ret |-> <<None, None, None>>, fp |-> f]

RECURSIVE SumSquares(_, _)
\* The loop "norm += prob * prob" from element k on.
SumSquares(v, k) ==
  IF k > Len(v) THEN Zero ELSE RAdd(RMul(v[k], v[k]), SumSquares(v, k + 1))

\* _add_classifier_noise(region_probs, classifier_noise) with the draws
\* abs(random.normalvariate(0, classifier_noise)) given per element: the
\* list afterwards.  The list is the one stored in _probability_list; it is
\* changed in place and returned.
AddClassifierNoise(region_probs, noise) ==
  LET noisy == [i \in 1..Len(region_probs) |->
                  IF region_probs[i] = One
                    THEN RAbs(RSub(region_probs[i], noise[i]))
                    ELSE RAdd(region_probs[i], noise[i])]
      norm  == RSqrt(SumSquares(noisy, 1))
  IN  [i \in 1..Len(region_probs) |-> RDiv(noisy[i], norm)]

\* Vectors of Euclidean norm 5 (length 2) and 3 (lengths 1 and 6).
NoiseShapes(k) ==
  CASE k = 1 -> { <<3>> }
    [] k = 2 -> { <<3, 4>>, <<4, 3>> }
    [] k = 6 -> { <<2, 1, 1, 1, 1, 1>>, <<1, 1, 1, 1, 1, 2>> }
    [] OTHER -> {}

\* Draws of the normal variates for one call: of all non-negative reals,
\* those that take the elements of region_probs to twice an element of
\* NoiseShapes, so that the norm is a rational number.
NoiseDraws(region_probs) ==
  { noise \in
      { [i \in 1..Len(region_probs) |->
           IF region_probs[i] = One THEN Rat(1 + 2 * shape[i], 1)
           ELSE RSub(Rat(2 * shape[i], 1), region_probs[i])] :
        shape \in NoiseShapes(Len(region_probs)) } :
      \A i \in 1..Len(region_probs) : RLe(Zero, noise[i]) }

\* _add_motion_noise(motion, motion_noise) with its draws given: random()
\* and choice([1, -1]) for the odometry, then for the turning rate.  pi / 2
\* is one quarter turn.
AddMotionNoise(motion, motion_noise, draw) ==
  IF motion = None THEN None
  ELSE LET move_speed == motion[1][1]
           turn_speed == motion[1][2]
           move_noise == RMul(RMul(Rat(draw.move_sign, 1),
                                   RMul(draw.move_u, motion_noise)),
                              move_speed)
           turn_noise == RMul(Rat(draw.turn_sign, 1),
                              RMul(draw.turn_u, motion_noise))
       IN  Some(<<RAdd(move_speed, move_noise), RAdd(turn_speed, turn_noise)>>)

\* The random draws one get_next() call makes.
GetNextDraws(f) ==
  LET k == f.next_index + 1
  IN  [ classifier :
          IF HasNext(f) /\ RLt(Zero, f.classifier_noise)
            THEN NoiseDraws(f.probability_list[k]) ELSE { <<>> },
        move_u :
          IF HasNext(f) /\ RLt(Zero, f.motion_noise) /\ f.motions[k] # None
            THEN {Zero, Half} ELSE {Zero},
        move_sign :
          IF HasNext(f) /\ RLt(Zero, f.motion_noise) /\ f.motions[k] # None
            THEN {1, -1} ELSE {1},
        turn_u :
          IF HasNext(f) /\ RLt(Zero, f.motion_noise) /\ f.motions[k] # None
            THEN {Zero, Half} ELSE {Zero},
        turn_sign :
          IF HasNext(f) /\ RLt(Zero, f.motion_noise) /\ f.motions[k] # None
            THEN {1, -1} ELSE {1} ]

\* FeedProcessor.get_next() with the noise: the entry's probability list
\* is perturbed where it is stored, the motion returned is a new tuple.
GetNextWithNoise(f, draw) ==
  IF HasNext(f)
    THEN LET k  == f.next_index + 1
             f1 == IF RLt(Zero, f.classifier_noise)
                     THEN [f EXCEPT !.probability_list[k] =
                             AddClassifierNoise(@, draw.classifier)]
                     ELSE f
             r  == GetNext(f1)
         IN  [ ret |-> << r.ret[1],
                          IF RLt(Zero, f.motion_noise)
                            THEN AddMotionNoise(r.ret[2], f.motion_noise, draw)
                            ELSE r.ret[2],
                          r.ret[3] >>,
               fp  |-> r.fp ]
    ELSE GetNext(f)

(***************************************************************************)
(* Particle and ParticleFilter (pf.py).                                    *)
(***************************************************************************)
\* Python 2 "/" on two ints: floor division.
PyIntDiv(a, b) == a \div b

\* Python 2 "%" on two ints with a positive right operand.
PyIntMod(a, b) == a % b

\* math.cos of a heading on the quarter-turn lattice.
Cos(theta) ==
  CASE theta[1] % 4 = 0 -> 1
    [] theta[1] % 4 = 1 -> 0
    [] theta[1] % 4 = 2 -> -1
    [] theta[1] % 4 = 3 -> 0

\* math.sin of a heading on the quarter-turn lattice.
Sin(theta) ==
  CASE theta[1] % 4 = 0 -> 0
    [] theta[1] % 4 = 1 -> 1
    [] theta[1] % 4 = 2 -> 0
    [] theta[1] % 4 = 3 -> -1

\* Particle.__init__ with its three random draws made: x in 1..map_width,
\* y in 1..map_height, theta in [0, 2 pi).
Particle(x, y, theta) ==
  [ x |-> Rat(x, 1), y |-> Rat(y, 1), theta |-> Rat(theta, 1),
    weight |-> One, cluster_id |-> 0 ]

\* Particle.move_by(amount).
MoveBy(p, amount) ==
  [p EXCEPT !.x = RAdd(p.x, RMul(amount, Rat(Cos(p.theta), 1))),
            !.y = RAdd(p.y, RMul(amount, Rat(Sin(p.theta), 1)))]

\* Particle.clone(): a new Particle with x, y, theta and weight copied.
Clone(p) ==
  [ x |-> p.x, y |-> p.y, theta |-> p.theta, weight |-> p.weight,
    cluster_id |-> 0 ]

\* The random-walk test without the modulus: every frame when the
\* frequency is not 0.
RandomWalkDueEveryFrame(cfg, frm) == cfg.RANDOM_WALK_FREQUENCY # 0

\* The test update() makes before calling _random_walk.
RandomWalkDue(cfg, frm) ==
  /\ cfg.RANDOM_WALK_FREQUENCY # 0
  /\ PyIntMod(frm, cfg.RANDOM_WALK_FREQUENCY) = 0

\* _move_particles(amount).
MoveParticles(ps, amount) == [k \in 1..Len(ps) |-> MoveBy(ps[k], amount)]

\* _turn_particles(angle) with the draws randint(0, 1) given per particle.
TurnParticles(ps, angle, draws) ==
  [k \in 1..Len(ps) |->
     LET sign == draws[k] * 2 - 1
     IN  [ps[k] EXCEPT !.theta = RAdd(ps[k].theta, RMul(angle, Rat(sign, 1)))]]

\* _random_walk with the draws given per particle: rx, ry from
\* randint(0, RANDOM_WALK_MAX_DIST), u from random.random().
RandomWalk(ps, cfg, rx, ry, u) ==
  LET half_dist  == PyIntDiv(cfg.RANDOM_WALK_MAX_DIST, 2)
      half_theta == RDiv(cfg.RANDOM_WALK_MAX_THETA, Rat(2, 1))
  IN  [k \in 1..Len(ps) |->
         LET dx     == rx[k] - half_dist
             dy     == ry[k] - half_dist
             dtheta == RSub(RMul(u[k], cfg.RANDOM_WALK_MAX_THETA), half_theta)
         IN  [ps[k] EXCEPT !.x = RAdd(ps[k].x, Rat(dx, 1)),
                           !.y = RAdd(ps[k].y, Rat(dy, 1)),
                           !.theta = RAdd(ps[k].theta, dtheta)]]

\* The observation weight without the decay blend.
ObsWeightNoBlend(bm, cfg, p) == ProbabilityOf(bm, IntOf(p.x), IntOf(p.y))

\* The local "weight" of _update_weights for one particle: the map's
\* probability at the truncated position, blended toward 1 by the decay.
ObsWeight(bm, cfg, p) ==
  LET weight == ProbabilityOf(bm, IntOf(p.x), IntOf(p.y))
  IN  RAdd(weight, RMul(RSub(One, weight), RSub(One, cfg.WEIGHT_DECAY_RATE)))

\* _update_weights: the particles afterwards.
UpdateWeights(ps, bm, cfg) ==
  [k \in 1..Len(ps) |->
     [ps[k] EXCEPT !.weight = RMul(ps[k].weight, ObsWeight(bm, cfg, ps[k]))]]

RECURSIVE MaxFrom(_, _, _)
\* max over a list of numbers, as the loop "m = max(m, v)" computes it.
MaxFrom(vals, k, m) ==
  IF k > Len(vals) THEN m ELSE MaxFrom(vals, k + 1, RMax(m, vals[k]))

\* _update_weights: the value returned, the largest observation weight.
UpdateWeightsMax(ps, bm, cfg) ==
  MaxFrom([k \in 1..Len(ps) |-> ObsWeight(bm, cfg, ps[k])], 1, Zero)

RECURSIVE SumFrom(_, _, _)
SumFrom(vals, k, s) ==
  IF k > Len(vals) THEN s ELSE SumFrom(vals, k + 1, RAdd(s, vals[k]))

\* _normalize_weights(max_weight): the particles afterwards.
NormalizeWeights(ps, maxw) ==
  IF RLe(maxw, Zero) THEN ps
  ELSE [k \in 1..Len(ps) |-> [ps[k] EXCEPT !.weight = RDiv(ps[k].weight, maxw)]]

\* _normalize_weights(max_weight): the value returned.
NormalizeWeightsSum(ps, maxw) ==
  IF RLe(maxw, Zero) THEN Zero
  ELSE SumFrom([k \in 1..Len(ps) |-> RDiv(ps[k].weight, maxw)], 1, Zero)

RECURSIVE ScanFrom(_, _, _)
\* The while loop of _resample from (index, weight_pos): the index selected,
\* or Len(ps) when the scan runs off the list (IndexError).
ScanFrom(ps, index, weight_pos) ==
  IF ~RLt(Zero, weight_pos) THEN index
  ELSE IF index + 1 >= Len(ps) THEN Len(ps)
  ELSE ScanFrom(ps, index + 1, RSub(weight_pos, ps[index + 2].weight))

RECURSIVE ScanFromInclusive(_, _, _)
\* The scan going on while weight_pos >= 0.
ScanFromInclusive(ps, index, weight_pos) ==
  IF RLt(weight_pos, Zero) THEN index
  ELSE IF index + 1 >= Len(ps) THEN Len(ps)
  ELSE ScanFromInclusive(ps, index + 1, RSub(weight_pos, ps[index + 2].weight))

\* The selection with "while weight_pos >= 0".
SelectInclusive(ps, target) ==
  ScanFromInclusive(ps, 0, RSub(target, ps[1].weight))

\* One pass of the for loop of _resample with target = random() * weight_sum.
Select(ps, target) == ScanFrom(ps, 0, RSub(target, ps[1].weight))

\* Cumulative weight of particles 0..i-1.
CumWeight(ps, i) == SumFrom([k \in 1..i |-> ps[k].weight], 1, Zero)

\* Values of random.random() * weight_sum, one for every outcome the scan
\* has on [0, weight_sum): 0 itself, and the middle and the end of each
\* particle's stretch of the cumulative weight.
Targets(ps, wsum) ==
  {Zero} \cup
  { t \in { RAdd(CumWeight(ps, i - 1), RMul(Half, ps[i].weight)) : i \in 1..Len(ps) }
           \cup { CumWeight(ps, i) : i \in 1..Len(ps) } :
      RLt(Zero, t) /\ RLt(t, wsum) }

\* _resample dropping the population when weight_sum is 0.
ResampleEmptyOnZero(ps, targets) ==
  IF \A k \in 1..Len(ps) : ps[k].weight = Zero THEN <<>>
  ELSE [k \in 1..Len(ps) |-> Clone(ps[Select(ps, targets[k]) + 1])]

\* _resample with the targets given per output slot (all scans in range).
Resample(ps, targets) ==
  [k \in 1..Len(ps) |-> Clone(ps[Select(ps, targets[k]) + 1])]

Min(a, b) == IF a < b THEN a ELSE b

Max(a, b) == IF a > b THEN a ELSE b

\* int(math.ceil(q)).
CeilToInt(q) == -((-q[1]) \div q[2])

\* num_bin_cols / num_bin_rows of _cluster_particles: the quotient is taken
\* with Python 2's "/" on two ints before math.ceil sees it.
NumBins(extent, cfg) ==
  CeilToInt(Rat(PyIntDiv(extent, cfg.CLUSTER_BIN_WIDTH), 1))

\* The bin a coordinate is assigned to: int(v) / width, clamped into the grid.
BinOf(v, cfg, num_bins) ==
  Min(num_bins - 1, Max(0, PyIntDiv(IntOf(v), cfg.CLUSTER_BIN_WIDTH)))

\* The bin grid once the particles are in it: its size and the non-empty bins.
BinGrid(ps, bm, cfg) ==
  LET cols == NumBins(bm.num_cols, cfg)
      rows == NumBins(bm.num_rows, cfg)
  IN  [ cols |-> cols,
        rows |-> rows,
        occupied |-> { <<BinOf(ps[k].x, cfg, cols), BinOf(ps[k].y, cfg, rows)>> :
                         k \in 1..Len(ps) } ]

RECURSIVE LabelCluster(_, _, _, _, _)
RECURSIVE LabelNeighbours(_, _, _, _, _, _)
RECURSIVE LabelEdgeNeighbours(_, _, _, _, _, _)
\* label_cluster(bins, x, y, label): the labels afterwards.
LabelCluster(labels, g, x, y, label) ==
  IF y < 0 \/ y >= g.rows \/ x < 0 \/ g.rows = 0 \/ x >= g.cols
    THEN labels
  ELSE IF labels[<<x, y>>] = -1 /\ <<x, y>> \in g.occupied
    THEN LabelNeighbours([labels EXCEPT ![<<x, y>>] = label], g, x, y, label, 0)
  ELSE labels

\* The offset loops of label_cluster leaving out the four diagonal pairs.
LabelEdgeNeighbours(labels, g, x, y, label, k) ==
  IF k >= 9 THEN labels
  ELSE LET xo == (k \div 3) - 1
           yo == (k % 3) - 1
       IN  IF xo # 0 /\ yo # 0
             THEN LabelEdgeNeighbours(labels, g, x, y, label, k + 1)
             ELSE LabelEdgeNeighbours(LabelCluster(labels, g, x + xo, y + yo, label),
                                      g, x, y, label, k + 1)

\* The two nested loops over offsets [-1, 0, 1] of label_cluster, from the
\* k-th pair on (xo outer, yo inner).
LabelNeighbours(labels, g, x, y, label, k) ==
  IF k >= 9 THEN labels
  ELSE LET xo == (k \div 3) - 1
           yo == (k % 3) - 1
       IN  LabelNeighbours(LabelCluster(labels, g, x + xo, y + yo, label),
                           g, x, y, label, k + 1)

RECURSIVE LabelAllSameId(_, _, _, _)
\* The labelling loop passing label 0 for every component it finds.
LabelAllSameId(labels, g, k, next_cluster_id) ==
  IF k >= g.rows * g.cols
    THEN [labels |-> labels, next_cluster_id |-> next_cluster_id]
  ELSE LET j == k \div g.cols
           i == k % g.cols
       IN  IF labels[<<i, j>>] = -1 /\ <<i, j>> \in g.occupied
             THEN LabelAllSameId(LabelCluster(labels, g, i, j, 0),
                                 g, k + 1, next_cluster_id + 1)
             ELSE LabelAllSameId(labels, g, k + 1, next_cluster_id)

RECURSIVE LabelAll(_, _, _, _)
\* The row-major loop over the bins of _cluster_particles from cell k on
\* (j = k / cols, i = k % cols): the labels and next_cluster_id at its end.
LabelAll(labels, g, k, next_cluster_id) ==
  IF k >= g.rows * g.cols
    THEN [labels |-> labels, next_cluster_id |-> next_cluster_id]
  ELSE LET j == k \div g.cols
           i == k % g.cols
       IN  IF labels[<<i, j>>] = -1 /\ <<i, j>> \in g.occupied
             THEN LabelAll(LabelCluster(labels, g, i, j, next_cluster_id),
                           g, k + 1, next_cluster_id + 1)
             ELSE LabelAll(labels, g, k + 1, next_cluster_id)

\* _cluster_particles failing on a grid without rows or columns even when
\* there is no particle to put in a bin.
ClusterParticlesEmptyGridFails(ps, bm, cfg) ==
  LET g == BinGrid(ps, bm, cfg)
  IN  IF g.rows <= 0 \/ g.cols <= 0
        THEN [raised |-> TRUE, particles |-> ps, num_clusters |-> 0]
        ELSE [raised |-> FALSE, particles |-> ps, num_clusters |-> 0]

\* _cluster_particles: raised is the IndexError of bins[bin_y][bin_x] on a
\* grid with no rows or no columns.
ClusterParticles(ps, bm, cfg) ==
  LET g == BinGrid(ps, bm, cfg)
  IN  IF Len(ps) > 0 /\ (g.rows <= 0 \/ g.cols <= 0)
        THEN [raised |-> TRUE, particles |-> ps, num_clusters |-> 0]
      ELSE
        LET done == LabelAll([b \in (0..(g.cols - 1)) \X (0..(g.rows - 1)) |-> -1],
                             g, 0, 0)
        IN  [ raised |-> FALSE,
              particles |->
                [k \in 1..Len(ps) |->
                   [ps[k] EXCEPT !.cluster_id =
                      done.labels[<<BinOf(ps[k].x, cfg, g.cols),
                                    BinOf(ps[k].y, cfg, g.rows)>>]]],
              num_clusters |-> done.next_cluster_id ]

\* The accumulation loop of _estimate_location for cluster c: the sum of
\* weight * vals[k] over its particles.
ClusterTotal(ps, c, vals) ==
  SumFrom([k \in 1..Len(ps) |->
             IF ps[k].cluster_id = c THEN RMul(ps[k].weight, vals[k]) ELSE Zero],
          1, Zero)

TotalWeights(ps, n) ==
  [c \in 1..n |-> ClusterTotal(ps, c - 1, [k \in 1..Len(ps) |-> One])]

TotalXs(ps, n) ==
  [c \in 1..n |-> ClusterTotal(ps, c - 1, [k \in 1..Len(ps) |-> ps[k].x])]

TotalYs(ps, n) ==
  [c \in 1..n |-> ClusterTotal(ps, c - 1, [k \in 1..Len(ps) |-> ps[k].y])]

TotalThetas(ps, n) ==
  [c \in 1..n |-> ClusterTotal(ps, c - 1, [k \in 1..Len(ps) |-> ps[k].theta])]

RECURSIVE BestFromLast(_, _, _, _, _)
\* The best-cluster loop taking the last of equal maxima (">=" for ">").
BestFromLast(totals, i, stop, maxw, best) ==
  IF i >= stop THEN best
  ELSE IF RLe(maxw, totals[i + 1]) /\ RLt(Zero, totals[i + 1])
         THEN BestFromLast(totals, i + 1, stop, totals[i + 1], i)
         ELSE BestFromLast(totals, i + 1, stop, maxw, best)

RECURSIVE BestFromOneBased(_, _, _, _, _)
\* The best-cluster loop storing the 1-based position of the cluster.
BestFromOneBased(totals, i, stop, maxw, best) ==
  IF i >= stop THEN best
  ELSE IF RLt(maxw, totals[i + 1])
         THEN BestFromOneBased(totals, i + 1, stop, totals[i + 1], i + 1)
         ELSE BestFromOneBased(totals, i + 1, stop, maxw, best)

RECURSIVE BestFrom(_, _, _, _, _)
\* "if total_weights[i] > max_weight" over clusters i..stop-1.
BestFrom(totals, i, stop, maxw, best) ==
  IF i >= stop THEN best
  ELSE IF RLt(maxw, totals[i + 1])
         THEN BestFrom(totals, i + 1, stop, totals[i + 1], i)
         ELSE BestFrom(totals, i + 1, stop, maxw, best)

\* The last loop of _estimate_location over num_clusters clusters.  The
\* division by total_weights[i] raises ZeroDivisionError at the first
\* cluster of total weight 0; the lists then hold the clusters before it.
EstimateLocation(ps, n) ==
  LET tw   == TotalWeights(ps, n)
      zero == { c \in 1..n : tw[c] = Zero }
      stop == IF zero = {} THEN n
              ELSE (CHOOSE c \in zero : \A d \in zero : c <= d) - 1
      txs  == TotalXs(ps, n)
      tys  == TotalYs(ps, n)
      tth  == TotalThetas(ps, n)
  IN  [ raised  |-> zero # {},
        xs      |-> [c \in 1..stop |-> IntOf(RDiv(txs[c], tw[c]))],
        ys      |-> [c \in 1..stop |-> IntOf(RDiv(tys[c], tw[c]))],
        thetas  |-> [c \in 1..stop |-> IntOf(RDiv(tth[c], tw[c]))],
        weights |-> [c \in 1..stop |-> tw[c]],
        best    |-> BestFrom(tw, 0, stop, Zero, 0) ]

(***************************************************************************)
(* State.                                                                  *)
(***************************************************************************)
VARIABLES
  bmap,               \* the BuildingMap object
  probe,              \* the last probability_of(x, y) call and its outcome
  log,                \* the messages log_error has printed (by call site)
  feed_in,            \* FeedProcessor.__init__'s arguments and the file
  line_no,            \* lines of the feed file consumed by the parse loop
  fp,                 \* the FeedProcessor object
  fp_pc,              \* "init", "parsing" (inside __init__) or "ready"
  ret,                \* what the last get_next() call returned
  calls,              \* get_next() calls made so far
  config,             \* the PFConfig object
  particles,          \* ParticleFilter.particles
  frame,              \* ParticleFilter._frame
  predicted_xs, predicted_ys, predicted_thetas, predicted_weights,
  best_predicted,
  ground_truth,
  pc,                 \* position inside ParticleFilter.__init__ / update()
  raised,             \* the exception that ended the run ("" when none)
  motion,             \* update()'s local: the motion of this tick
  iter,               \* update()'s loop variable i
  max_weight,         \* update()'s local max_weight
  weight_sum,         \* update()'s local weight_sum
  obs_weights,        \* _update_weights' local weight, per particle
  num_clusters,       \* _estimate_location's local num_clusters
  steps,              \* the methods update() has called in this iteration
  targets,            \* _resample's random.random() * weight_sum, per slot
  ticks               \* update() calls started so far

mapVars == <<bmap, probe>>

feedVars == <<feed_in, line_no, fp, fp_pc, ret, calls>>

pfVars == <<config, particles, frame, predicted_xs, predicted_ys,
            predicted_thetas, predicted_weights, best_predicted, ground_truth,
            pc, raised, motion, iter, max_weight, weight_sum, obs_weights,
            num_clusters, steps, targets, ticks>>

vars == <<mapVars, log, feedVars, pfVars>>

(***************************************************************************)
(* Inputs.                                                                 *)
(***************************************************************************)
\* Parsed map files: rows of region ids.
MapFiles ==
  { << <<1, 1>>, <<1, 2>> >>,
    << <<1, 0, 2>>, <<0, 0, 1>> >>,
    << <<2, 1, 1, 0>> >>,
    \* the empty file
    << >>,
    \* rows of different lengths
    << <<1, 1>>, <<2>> >>,
    << <<1>>, <<1, 2>> >>,
    \* a region id past the last region
    << <<1, 7>> >> }

\* Coordinates probability_of is called with.
Coordinates == (-1)..2

ProbValues == {Zero, Half, One}

\* Arguments of set_probabilities: too short, right, too long.
ProbVectors ==
  UNION { [1..n -> {Zero, One}] : n \in {NUMBER_OF_REGIONS - 2,
                                         NUMBER_OF_REGIONS - 1,
                                         NUMBER_OF_REGIONS} }

Line(prefix, toks) == [prefix |-> prefix, toks |-> toks]

FeedLines ==
  { Line("", <<>>),
    Line("#", <<"x">>),
    Line("", <<"1", "0", "0", "0", "0", "0">>),
    Line("", <<"0.5", "1">>),
    Line("", <<"1", "x">>),
    Line("+", <<"1", "0">>),
    Line("+", <<"2", "1", "x">>),
    Line("+", <<"1">>),
    Line("+", <<"0.5", "1">>),
    Line("!", <<"1", "2", "0.5">>),
    Line("!", <<"1", "2">>),
    Line("!", <<"x", "1", "0">>) }

FeedFiles == UNION { [1..n -> FeedLines] : n \in 0..MaxLines }

(***************************************************************************)
(* Values of the variables a specification leaves alone.                   *)
(***************************************************************************)
MapIdle == bmap = BuildingMapInit(<<>>) /\ probe = None

FeedIdle ==
  /\ feed_in = [file |-> <<>>, exists |-> TRUE, loop_feed |-> FALSE,
                classifier_noise |-> Zero, motion_noise |-> Zero,
                ignore_regions |-> FALSE]
  /\ line_no = 0
  /\ fp = FeedEmpty(FALSE, Zero, Zero)
  /\ fp_pc = "ready"
  /\ ret = <<None, None, None>>
  /\ calls = 0

PFIdle ==
  /\ config = [NUM_PARTICLES |-> 0]
  /\ particles = <<>>
  /\ frame = 0
  /\ predicted_xs = <<>>
  /\ predicted_ys = <<>>
  /\ predicted_thetas = <<>>
  /\ predicted_weights = <<>>
  /\ best_predicted = 0
  /\ ground_truth = None
  /\ pc = "none"
  /\ raised = ""
  /\ motion = None
  /\ iter = 0
  /\ max_weight = Zero
  /\ weight_sum = Zero
  /\ obs_weights = <<>>
  /\ num_clusters = 0
  /\ steps = <<>>
  /\ targets = <<>>
  /\ ticks = 0

(***************************************************************************)
(* BuildingMap on its own: any sequence of set_probabilities calls.        *)
(***************************************************************************)
MapInit ==
  /\ bmap \in { BuildingMapInit(rows) : rows \in MapFiles }
  /\ probe = None
  /\ log = {}
  /\ FeedIdle
  /\ PFIdle

\* A call of set_probabilities(probabilities).
SetProbabilitiesCall ==
  \E probabilities \in ProbVectors :
    /\ bmap' = SetProbabilities(bmap, probabilities)
    /\ log' = IF SetProbabilitiesRefused(probabilities)
                THEN log \cup {"set_probabilities"} ELSE log
    /\ UNCHANGED <<probe, feedVars, pfVars>>

\* A call of probability_of(x, y).
ProbabilityOfCall ==
  \E x \in Coordinates, y \in Coordinates :
    /\ probe' = Some([ x |-> x, y |-> y,
                       raised |-> ProbabilityOfRaises(bmap, x, y),
                       value |-> IF ProbabilityOfRaises(bmap, x, y) THEN Zero
                                 ELSE ProbabilityOf(bmap, x, y) ])
    /\ UNCHANGED <<bmap, log, feedVars, pfVars>>

MapNext == SetProbabilitiesCall \/ ProbabilityOfCall

SpecMap == MapInit /\ [][MapNext]_vars

(***************************************************************************)
(* FeedProcessor on its own: construction, then get_next calls.            *)
(***************************************************************************)
FeedInit ==
  /\ feed_in \in
       { [file |-> f, exists |-> e, loop_feed |-> l,
          classifier_noise |-> Zero, motion_noise |-> Zero,
          ignore_regions |-> g] :
           f \in FeedFiles, e \in BOOLEAN, l \in BOOLEAN, g \in BOOLEAN }
  /\ (~feed_in.exists => feed_in.file = <<>>)
  /\ line_no = 0
  /\ fp = FeedEmpty(feed_in.loop_feed, Zero, Zero)
  /\ fp_pc = "init"
  /\ ret = <<None, None, None>>
  /\ calls = 0
  /\ log = {}
  /\ MapIdle
  /\ PFIdle

\* open(feed_file_name): on IOError the handler logs and __init__ finishes.
FeedOpen ==
  /\ fp_pc = "init"
  /\ IF feed_in.exists
       THEN /\ fp_pc' = "parsing"
            /\ UNCHANGED <<fp, log>>
       ELSE /\ fp_pc' = "ready"
            /\ fp' = FeedFinish(fp)
            /\ log' = log \cup {"feed"}
  /\ UNCHANGED <<feed_in, line_no, ret, calls, mapVars, pfVars>>

\* One line of the parse loop; a ValueError ends the loop in the handler.
FeedParseLine ==
  /\ fp_pc = "parsing"
  /\ line_no < Len(feed_in.file)
  /\ LET r == ParseLine(fp, feed_in.file[line_no + 1], feed_in.ignore_regions)
     IN  IF r.raised
           THEN /\ fp' = FeedFinish(r.fp)
                /\ fp_pc' = "ready"
                /\ log' = log \cup {"feed"}
                /\ UNCHANGED line_no
           ELSE /\ fp' = r.fp
                /\ line_no' = line_no + 1
                /\ UNCHANGED <<fp_pc, log>>
  /\ UNCHANGED <<feed_in, ret, calls, mapVars, pfVars>>

\* The loop ran off the end of the file.
FeedEndOfFile ==
  /\ fp_pc = "parsing"
  /\ line_no = Len(feed_in.file)
  /\ fp' = FeedFinish(fp)
  /\ fp_pc' = "ready"
  /\ UNCHANGED <<feed_in, line_no, ret, calls, log, mapVars, pfVars>>

\* A call of get_next() by the consumer.
FeedGetNext ==
  /\ fp_pc = "ready"
  /\ calls < MaxCalls
  /\ \E draw \in GetNextDraws(fp) :
       LET r == GetNextWithNoise(fp, draw)
       IN  /\ ret' = r.ret
           /\ fp' = r.fp
  /\ calls' = calls + 1
  /\ UNCHANGED <<feed_in, line_no, fp_pc, log, mapVars, pfVars>>

FeedNext == FeedOpen \/ FeedParseLine \/ FeedEndOfFile \/ FeedGetNext

SpecFeed == FeedInit /\ [][FeedNext]_vars

(***************************************************************************)
(* FeedProcessor with its noise settings and ignore_regions.               *)
(***************************************************************************)
NoisyFeedFiles ==
  { << Line("", <<"0.5", "1">>) >>,
    << Line("", <<"0.5", "1">>), Line("+", <<"1", "0">>),
       Line("", <<"1", "0", "0", "0", "0", "0">>) >>,
    << Line("", <<"1", "x">>), Line("!", <<"1", "2", "0.5">>),
       Line("", <<"2">>), Line("+", <<"2", "1">>), Line("+", <<"x", "1">>) >> }

NoisyFeedInit ==
  /\ feed_in \in
       { [file |-> f, exists |-> TRUE, loop_feed |-> l,
          classifier_noise |-> c, motion_noise |-> m, ignore_regions |-> g] :
           f \in NoisyFeedFiles, l \in BOOLEAN, c \in {Zero, One},
           m \in {Zero, Half}, g \in BOOLEAN }
  /\ line_no = 0
  /\ fp = FeedEmpty(feed_in.loop_feed, feed_in.classifier_noise,
                    feed_in.motion_noise)
  /\ fp_pc = "init"
  /\ ret = <<None, None, None>>
  /\ calls = 0
  /\ log = {}
  /\ MapIdle
  /\ PFIdle

SpecNoisyFeed == NoisyFeedInit /\ [][FeedNext]_vars

(***************************************************************************)
(* ParticleFilter driven by its feed: construction, then update() calls,   *)
(* each taken one step of its body at a time.                              *)
(***************************************************************************)
RECURSIVE ParseFrom(_, _, _, _)
\* The parse loop of FeedProcessor.__init__ from line k on, to its end.
ParseFrom(f, file, k, ignore_regions) ==
  IF k > Len(file) THEN FeedFinish(f)
  ELSE LET r == ParseLine(f, file[k], ignore_regions)
       IN  IF r.raised THEN FeedFinish(r.fp)
           ELSE ParseFrom(r.fp, file, k + 1, ignore_regions)

\* FeedProcessor.__init__ as a whole.
FeedProcessorInit(args) ==
  IF args.exists
    THEN ParseFrom(FeedEmpty(args.loop_feed, args.classifier_noise,
                             args.motion_noise),
                   args.file, 1, args.ignore_regions)
    ELSE FeedFinish(FeedEmpty(args.loop_feed, args.classifier_noise,
                              args.motion_noise))

PFConfig(n, updates, rw_freq, rw_dist, rw_theta, decay, bin_width) ==
  [ NUM_PARTICLES         |-> n,
    UPDATES_PER_FRAME     |-> updates,
    RANDOM_WALK_FREQUENCY |-> rw_freq,
    RANDOM_WALK_MAX_DIST  |-> rw_dist,
    RANDOM_WALK_MAX_THETA |-> rw_theta,
    WEIGHT_DECAY_RATE     |-> decay,
    CLUSTER_BIN_WIDTH     |-> bin_width ]

FeedArgs(file, loop_feed) ==
  [file |-> file, exists |-> TRUE, loop_feed |-> loop_feed,
   classifier_noise |-> Zero, motion_noise |-> Zero,
   ignore_regions |-> FALSE]

HallwayLine == Line("", <<"1", "0.5", "0", "0", "0", "0">>)

StaircaseLine == Line("", <<"0.5", "1", "0", "0", "0", "0">>)

NothingLine == Line("", <<"0", "0", "0", "0", "0", "0">>)

WideMap == << <<1, 1, 0, 1>>, <<0, 2, 0, 1>> >>

SmallMap == << <<1, 0, 2>>, <<0, 1, 2>> >>

OpenMap == << <<1, 1, 1, 1>>, <<1, 1, 1, 1>>, <<1, 1, 1, 1>> >>

\* Scenario S1: a 3x3 map of hallway, a feed of the one line
\* "1 0 0 0 0 0", no random walk, the other settings as PFConfig declares
\* them (RANDOM_WALK_MAX_THETA = pi / 4 is half a quarter turn).  The
\* population is 2 particles, not the 100 of NUM_PARTICLES.
S1 ==
  [ rows |-> << <<1, 1, 1>>, <<1, 1, 1>>, <<1, 1, 1>> >>,
    feed |-> FeedArgs(<< Line("", <<"1", "0", "0", "0", "0", "0">>) >>, TRUE),
    config |-> PFConfig(2, 1, 0, 10, Half, One, 10) ]

\* The set-ups the filter is run in: a map, a feed and a configuration.
Scenarios ==
  { \* two particles, several bins, observations that change every tick
    [ rows |-> WideMap,
      feed |-> FeedArgs(<<HallwayLine, StaircaseLine>>, TRUE),
      config |-> PFConfig(2, 1, 0, 0, Zero, One, 1) ],
    \* softened observations, two iterations per tick, a feed that runs out
    [ rows |-> SmallMap,
      feed |-> FeedArgs(<<HallwayLine, Line("!", <<"1", "1", "0">>)>>, FALSE),
      config |-> PFConfig(2, 2, 0, 0, Zero, Half, 2) ],
    \* motion with a turn
    [ rows |-> SmallMap,
      feed |-> FeedArgs(<<HallwayLine, Line("+", <<"1", "1">>),
                          Line("", <<"1", "1">>)>>, TRUE),
      config |-> PFConfig(1, 1, 0, 0, Zero, One, 1) ],
    \* random walk on every second frame
    [ rows |-> SmallMap,
      feed |-> FeedArgs(<<HallwayLine>>, TRUE),
      config |-> PFConfig(1, 1, 2, 2, Rat(2, 1), One, 1) ],
    \* random walk of the heading alone, by half a quarter turn at most
    [ rows |-> SmallMap,
      feed |-> FeedArgs(<<HallwayLine>>, TRUE),
      config |-> PFConfig(1, 1, 1, 0, One, One, 1) ],
    \* nothing observed anywhere
    [ rows |-> SmallMap,
      feed |-> FeedArgs(<<NothingLine>>, TRUE),
      config |-> PFConfig(2, 1, 0, 0, Zero, One, 1) ],
    \* bins wider than the map is high
    [ rows |-> SmallMap,
      feed |-> FeedArgs(<<HallwayLine>>, TRUE),
      config |-> PFConfig(1, 1, 0, 0, Zero, One, 3) ],
    \* no particles
    [ rows |-> SmallMap,
      feed |-> FeedArgs(<<HallwayLine>>, TRUE),
      config |-> PFConfig(0, 1, 0, 0, Zero, One, 1) ],
    \* no particles and no bins
    [ rows |-> SmallMap,
      feed |-> FeedArgs(<<HallwayLine>>, TRUE),
      config |-> PFConfig(0, 2, 0, 0, Zero, One, 3) ],
    \* the map of an empty file, with and without particles
    [ rows |-> << >>,
      feed |-> FeedArgs(<<HallwayLine>>, TRUE),
      config |-> PFConfig(1, 1, 0, 0, Zero, One, 1) ],
    [ rows |-> << >>,
      feed |-> FeedArgs(<<HallwayLine>>, TRUE),
      config |-> PFConfig(0, 1, 0, 0, Zero, One, 1) ],
    \* two particles over bins in several rows and columns
    [ rows |-> OpenMap,
      feed |-> FeedArgs(<<HallwayLine>>, TRUE),
      config |-> PFConfig(2, 1, 0, 0, Zero, One, 1) ],
    S1 }

\* Initial headings drawn (quarter turns).
ThetaDraws == {0, 2}

\* Values of random.random() drawn for the heading perturbation.
UnitDraws == {Zero, Half}

PFInit ==
  /\ \E s \in Scenarios :
       /\ bmap = BuildingMapInit(s.rows)
       /\ feed_in = s.feed
       /\ fp = FeedProcessorInit(s.feed)
       /\ line_no = Len(s.feed.file)
       /\ config = s.config
  /\ probe = None
  /\ fp_pc = "ready"
  /\ ret = <<None, None, None>>
  /\ calls = 0
  /\ log = {}
  /\ particles = <<>>
  /\ frame = 0
  /\ predicted_xs = <<>>
  /\ predicted_ys = <<>>
  /\ predicted_thetas = <<>>
  /\ predicted_weights = <<>>
  /\ best_predicted = 0
  /\ ground_truth = None
  /\ pc = "new"
  /\ raised = ""
  /\ motion = None
  /\ iter = 0
  /\ max_weight = Zero
  /\ weight_sum = Zero
  /\ obs_weights = <<>>
  /\ num_clusters = 0
  /\ steps = <<>>
  /\ targets = <<>>
  /\ ticks = 0

\* ParticleFilter.__init__.  random.randint(1, 0) raises ValueError, so the
\* first particle cannot be made on a map without rows or columns.
Construct ==
  /\ pc = "new"
  /\ IF config.NUM_PARTICLES > 0 /\ (bmap.num_cols < 1 \/ bmap.num_rows < 1)
       THEN /\ pc' = "crashed"
            /\ raised' = "ValueError"
            /\ UNCHANGED <<particles, frame, predicted_xs, predicted_ys,
                           predicted_thetas, predicted_weights, best_predicted,
                           ground_truth>>
       ELSE /\ \E xs \in [1..config.NUM_PARTICLES -> 1..bmap.num_cols],
                  ys \in [1..config.NUM_PARTICLES -> 1..bmap.num_rows],
                  ths \in [1..config.NUM_PARTICLES -> ThetaDraws] :
                 particles' = [k \in 1..config.NUM_PARTICLES |->
                                 Particle(xs[k], ys[k], ths[k])]
            /\ frame' = 0
            /\ predicted_xs' = <<PyIntDiv(bmap.num_cols, 2)>>
            /\ predicted_ys' = <<PyIntDiv(bmap.num_rows, 2)>>
            /\ predicted_thetas' = <<0>>
            /\ predicted_weights' = <<Zero>>
            /\ best_predicted' = 0
            /\ ground_truth' = None
            /\ pc' = "idle"
            /\ UNCHANGED raised
  /\ UNCHANGED <<mapVars, log, feedVars, config, motion, iter, max_weight,
                 weight_sum, obs_weights, num_clusters, steps, targets, ticks>>

\* update(), up to its for loop: pull the observation, keep the ground
\* truth, push the probabilities into the map.
UpdateFetch ==
  /\ pc = "idle"
  /\ ticks < MaxTicks
  /\ LET r == GetNext(fp)
         probabilities == r.ret[1]
     IN  /\ ret' = r.ret
         /\ fp' = r.fp
         /\ motion' = r.ret[2]
         /\ ground_truth' = r.ret[3]
         /\ IF probabilities # None
              THEN /\ bmap' = SetProbabilities(bmap, probabilities[1])
                   /\ log' = IF SetProbabilitiesRefused(probabilities[1])
                               THEN log \cup {"set_probabilities"} ELSE log
              ELSE UNCHANGED <<bmap, log>>
  /\ calls' = calls + 1
  /\ ticks' = ticks + 1
  /\ iter' = 0
  /\ max_weight' = Zero
  /\ weight_sum' = Zero
  /\ obs_weights' = <<>>
  /\ steps' = <<>>
  /\ pc' = IF config.UPDATES_PER_FRAME > 0 THEN "move" ELSE "idle"
  /\ UNCHANGED <<probe, feed_in, line_no, fp_pc, config, particles, frame, targets,
                 predicted_xs, predicted_ys, predicted_thetas,
                 predicted_weights, best_predicted, raised, num_clusters>>

\* What a step inside the loop leaves alone besides the particles and pc.
StepFrame == <<mapVars, feedVars, config, frame, predicted_xs, predicted_ys,
               predicted_thetas, predicted_weights, best_predicted,
               ground_truth, motion, iter, ticks>>

\* if motion is not None: self._move_particles(move_speed)
Move ==
  /\ pc = "move"
  /\ particles' = IF motion # None
                    THEN MoveParticles(particles, motion[1][1])
                    ELSE particles
  /\ steps' = IF motion # None THEN Append(steps, "_move_particles") ELSE steps
  /\ pc' = "turn"
  /\ UNCHANGED <<StepFrame, log, raised, max_weight, weight_sum, obs_weights,
                 num_clusters, targets>>

\* if motion is not None: self._turn_particles(turn_angle)
Turn ==
  /\ pc = "turn"
  /\ IF motion # None
       THEN \E draws \in [1..Len(particles) -> {0, 1}] :
              particles' = TurnParticles(particles, motion[1][2], draws)
       ELSE UNCHANGED particles
  /\ steps' = IF motion # None THEN Append(steps, "_turn_particles") ELSE steps
  /\ pc' = "random_walk"
  /\ UNCHANGED <<StepFrame, log, raised, max_weight, weight_sum, obs_weights,
                 num_clusters, targets>>

\* The random walk, on the frames RANDOM_WALK_FREQUENCY divides.
RandomWalkStep ==
  /\ pc = "random_walk"
  /\ steps' = IF RandomWalkDue(config, frame)
                THEN Append(steps, "_random_walk") ELSE steps
  /\ IF RandomWalkDue(config, frame)
       THEN \E rx \in [1..Len(particles) -> 0..config.RANDOM_WALK_MAX_DIST],
               ry \in [1..Len(particles) -> 0..config.RANDOM_WALK_MAX_DIST],
               u  \in [1..Len(particles) -> UnitDraws] :
              particles' = RandomWalk(particles, config, rx, ry, u)
       ELSE UNCHANGED particles
  /\ pc' = "update_weights"
  /\ UNCHANGED <<StepFrame, log, raised, max_weight, weight_sum, obs_weights,
                 num_clusters, targets>>

\* max_weight = self._update_weights()
UpdateWeightsStep ==
  /\ pc = "update_weights"
  /\ obs_weights' = [k \in 1..Len(particles) |-> ObsWeight(bmap, config, particles[k])]
  /\ particles' = UpdateWeights(particles, bmap, config)
  /\ max_weight' = UpdateWeightsMax(particles, bmap, config)
  /\ steps' = Append(steps, "_update_weights")
  /\ pc' = "normalize"
  /\ UNCHANGED <<StepFrame, log, raised, weight_sum, num_clusters, targets>>

\* weight_sum = self._normalize_weights(max_weight)
NormalizeStep ==
  /\ pc = "normalize"
  /\ particles' = NormalizeWeights(particles, max_weight)
  /\ weight_sum' = NormalizeWeightsSum(particles, max_weight)
  /\ log' = IF RLe(max_weight, Zero) THEN log \cup {"max_weight"} ELSE log
  /\ steps' = Append(steps, "_normalize_weights")
  /\ pc' = "resample"
  /\ UNCHANGED <<StepFrame, raised, max_weight, obs_weights, num_clusters,
                 targets>>

\* self._resample(weight_sum)
ResampleStep ==
  /\ pc = "resample"
  /\ \E ts \in [1..Len(particles) -> Targets(particles, weight_sum)] :
       /\ targets' = ts
       /\ IF \E k \in 1..Len(particles) :
               Select(particles, ts[k]) >= Len(particles)
            THEN /\ pc' = "crashed"
                 /\ raised' = "IndexError"
                 /\ UNCHANGED particles
            ELSE /\ particles' = Resample(particles, ts)
                 /\ pc' = "cluster"
                 /\ UNCHANGED raised
  /\ steps' = Append(steps, "_resample")
  /\ UNCHANGED <<StepFrame, log, max_weight, weight_sum, obs_weights,
                 num_clusters>>

\* num_clusters = self._cluster_particles(), the first line of
\* _estimate_location.
ClusterStep ==
  /\ pc = "cluster"
  /\ LET r == ClusterParticles(particles, bmap, config)
     IN  IF r.raised
           THEN /\ pc' = "crashed"
                /\ raised' = "IndexError"
                /\ UNCHANGED <<particles, num_clusters>>
           ELSE /\ particles' = r.particles
                /\ num_clusters' = r.num_clusters
                /\ pc' = "estimate"
                /\ UNCHANGED raised
  /\ steps' = Append(steps, "_estimate_location")
  /\ UNCHANGED <<StepFrame, log, max_weight, weight_sum, obs_weights, targets>>

\* The rest of _estimate_location.
EstimateStep ==
  /\ pc = "estimate"
  /\ LET r == EstimateLocation(particles, num_clusters)
     IN  /\ predicted_xs' = r.xs
         /\ predicted_ys' = r.ys
         /\ predicted_thetas' = r.thetas
         /\ predicted_weights' = r.weights
         /\ best_predicted' = r.best
         /\ IF r.raised
              THEN /\ pc' = "crashed"
                   /\ raised' = "ZeroDivisionError"
              ELSE /\ pc' = "frame"
                   /\ UNCHANGED raised
  /\ UNCHANGED <<mapVars, log, feedVars, config, particles, frame, ground_truth,
                 motion, iter, max_weight, weight_sum, obs_weights,
                 num_clusters, steps, targets, ticks>>

\* self._frame += 1, and the loop goes round or update() returns.
FrameStep ==
  /\ pc = "frame"
  /\ frame' = frame + 1
  /\ iter' = iter + 1
  /\ steps' = <<>>
  /\ targets' = <<>>
  /\ pc' = IF iter + 1 < config.UPDATES_PER_FRAME THEN "move" ELSE "idle"
  /\ UNCHANGED <<mapVars, log, feedVars, config, particles, predicted_xs,
                 predicted_ys, predicted_thetas, predicted_weights,
                 best_predicted, ground_truth, raised, motion, max_weight,
                 weight_sum, obs_weights, num_clusters, ticks>>

PFNext ==
  \/ Construct
  \/ UpdateFetch
  \/ Move
  \/ Turn
  \/ RandomWalkStep
  \/ UpdateWeightsStep
  \/ NormalizeStep
  \/ ResampleStep
  \/ ClusterStep
  \/ EstimateStep
  \/ FrameStep

SpecPF == PFInit /\ [][PFNext]_vars

\* ---- properties ----

\* C11: probability_of(x, y) never fails on a loaded map, for any integer
\* coordinates, and returns 0 when x or y is outside [0, W) x [0, H) (W the
\* length of row 0, H the number of rows).
C11_LookupNeverFails ==
  probe # None =>
    /\ ~probe[1].raised
    /\ (probe[1].x < 0 \/ probe[1].x >= bmap.num_cols
          \/ probe[1].y < 0 \/ probe[1].y >= bmap.num_rows)
         => probe[1].value = Zero

(***************************************************************************)
(* Properties of BuildingMap.                                              *)
(***************************************************************************)
\* C4: region_probs[VoidSpace] is 0 in every reachable state of the map,
\* after construction and after any sequence of set_probabilities calls,
\* whatever the length of their argument.
C4_VoidSpacePinned == bmap.region_probs[VOID_SPACE + 1] = Zero

\* A refused call and an accepted call that zeroed Hallway have both happened.
C4_Witness ==
  /\ "set_probabilities" \in log
  /\ bmap.region_probs[HALLWAY + 1] = Zero
  /\ bmap.region_probs[STAIRCASE + 1] = One

(***************************************************************************)
(* Properties of FeedProcessor.                                            *)
(***************************************************************************)
\* Entry k (from 0) of the parsed feed, as get_next returns it.
EntryAt(f, k) ==
  << Some(f.probability_list[k + 1]), f.motions[k + 1], f.ground_truths[k + 1] >>

NoEntry == <<None, None, None>>

\* C7: with loop_feed set and a non-empty feed of n entries, has_next() is
\* true in every state after construction and the k-th get_next call
\* (k = 0, 1, ...) returned entry k mod n.
C7_LoopingFeedWraps ==
  (fp_pc = "ready" /\ fp.loop_feed /\ fp.num_feeds > 0) =>
    /\ HasNext(fp)
    /\ calls > 0 => ret = EntryAt(fp, (calls - 1) % fp.num_feeds)

\* The third call on a looping feed of two different entries returned entry 0.
C7_Witness ==
  /\ fp_pc = "ready" /\ fp.loop_feed /\ fp.num_feeds = 2
  /\ EntryAt(fp, 0) # EntryAt(fp, 1)
  /\ calls = 3
  /\ ret = EntryAt(fp, 0)

C9_FailedLoadYieldsEmptyStream ==
  (fp_pc = "ready" /\ "feed" \in log) =>
    /\ fp.num_feeds = 0
    /\ ~HasNext(fp)
    /\ ret = NoEntry

\* The line the parse loop is about to consume.
CurrentLine == feed_in.file[line_no + 1]

IsMotionLine(line) ==
  /\ line.prefix = "+"
  /\ Len(line.toks) >= 2
  /\ IsInt(line.toks[1]) /\ IsFloat(line.toks[2])

IsTruthLine(line) ==
  /\ line.prefix = "!"
  /\ Len(line.toks) >= 3
  /\ IsInt(line.toks[1]) /\ IsInt(line.toks[2]) /\ IsFloat(line.toks[3])

IsProbLine(line) ==
  /\ line.prefix = ""
  /\ Len(line.toks) > 0
  /\ feed_in.ignore_regions \/ \A i \in 1..Len(line.toks) : IsFloat(line.toks[i])

\* lst with its last element replaced by v; lst itself when it is empty.
WithLast(lst, v) ==
  IF Len(lst) = 0 THEN lst ELSE SubSeq(lst, 1, Len(lst) - 1) \o <<v>>

\* C10: while parsing, a '+' line (move_speed, turn_angle) sets the motion
\* of the most recently added entry, overwriting what was there, and a '!'
\* line (x, y, theta) sets its ground truth; before any probability line
\* either is ignored and creates no entry; a probability line adds exactly
\* one entry whose motion and ground truth are None.
C10_ParseAttachesToLastEntry ==
  [][ (fp_pc = "parsing" /\ line_no < Len(feed_in.file)) =>
        LET line == CurrentLine
            t    == line.toks
        IN  /\ IsMotionLine(line) =>
                 /\ fp'.motions =
                      WithLast(fp.motions, Some(<<NumberOf(t[1]), NumberOf(t[2])>>))
                 /\ fp'.probability_list = fp.probability_list
                 /\ fp'.ground_truths = fp.ground_truths
            /\ IsTruthLine(line) =>
                 /\ fp'.ground_truths =
                      WithLast(fp.ground_truths,
                               Some(<<NumberOf(t[1]), NumberOf(t[2]), NumberOf(t[3])>>))
                 /\ fp'.probability_list = fp.probability_list
                 /\ fp'.motions = fp.motions
            /\ IsProbLine(line) =>
                 /\ Len(fp'.probability_list) = Len(fp.probability_list) + 1
                 /\ SubSeq(fp'.probability_list, 1, Len(fp.probability_list))
                      = fp.probability_list
                 /\ fp'.motions = fp.motions \o <<None>>
                 /\ fp'.ground_truths = fp.ground_truths \o <<None>>
    ]_vars

\* A probability line followed by two '+' lines: the second motion replaced
\* the first on the only entry.
C10_Witness ==
  /\ fp_pc = "ready"
  /\ Len(feed_in.file) = 3
  /\ IsProbLine(feed_in.file[1])
  /\ IsMotionLine(feed_in.file[2])
  /\ IsMotionLine(feed_in.file[3])
  /\ feed_in.file[2] # feed_in.file[3]
  /\ fp.num_feeds = 1
  /\ fp.motions = << Some(<<NumberOf(feed_in.file[3].toks[1]),
                            NumberOf(feed_in.file[3].toks[2])>>) >>

(***************************************************************************)
(* Properties of ParticleFilter.                                           *)
(***************************************************************************)
\* The normalize step of this iteration has just run.
AfterNormalize == pc = "resample"

\* C1: after the normalize step of an iteration in which max_w > 0, the
\* largest particle weight is 1.0, on every tick.
C1_PeakWeightIsOne ==
  (AfterNormalize /\ RLt(Zero, max_weight)) =>
    /\ \E k \in 1..Len(particles) : particles[k].weight = One
    /\ \A k \in 1..Len(particles) : RLe(particles[k].weight, One)

\* C2: the population keeps its size: once the filter is constructed the
\* number of particles is num_particles in every state, so before and after
\* every _resample, whatever the weights and weight_sum are.
C2_PopulationSizePreserved ==
  (pc # "new" /\ raised # "ValueError") =>
    Len(particles) = config.NUM_PARTICLES

\* _resample has just run on a population whose weight_sum was 0.
C2_Witness ==
  /\ pc = "cluster"
  /\ weight_sum = Zero
  /\ "max_weight" \in log
  /\ config.NUM_PARTICLES = 2
  /\ Len(particles) = 2

\* The truncated position of p is outside [0, W) x [0, H).
OffMap(p) ==
  \/ IntOf(p.x) < 0 \/ IntOf(p.x) >= bmap.num_cols
  \/ IntOf(p.y) < 0 \/ IntOf(p.y) >= bmap.num_rows

\* The reweight step of this iteration has just run.
AfterReweight == pc = "normalize"

\* C3 as stated: in the reweight step the observation weight multiplied
\* into the weight of a particle whose truncated position is off the map
\* is 0, for every weight_decay_rate.
C3_OffMapObservationIsZero ==
  AfterReweight =>
    \A k \in 1..Len(particles) :
      OffMap(particles[k]) => obs_weights[k] = Zero

\* C3 amended: for a particle whose truncated position is off the map the
\* observation weight multiplied into its weight is 1 - weight_decay_rate
\* (the map's probability 0 after the decay blend), which is 0 exactly when
\* weight_decay_rate is 1.
C3_OffMapObservationIsDecayComplement ==
  AfterReweight =>
    \A k \in 1..Len(particles) :
      OffMap(particles[k]) =>
        obs_weights[k] = RSub(One, config.WEIGHT_DECAY_RATE)

\* A particle off the map was reweighted by 1/2 under a decay rate of 1/2.
C3_Witness ==
  /\ AfterReweight
  /\ config.WEIGHT_DECAY_RATE = Half
  /\ \E k \in 1..Len(particles) :
       OffMap(particles[k]) /\ obs_weights[k] = Half

\* The bin _cluster_particles puts particle p in.
ParticleBin(p) ==
  << BinOf(p.x, config, NumBins(bmap.num_cols, config)),
     BinOf(p.y, config, NumBins(bmap.num_rows, config)) >>

\* Bins whose grid coordinates differ by at most 1 on each axis.
Adjacent(a, b) == Abs(a[1] - b[1]) <= 1 /\ Abs(a[2] - b[2]) <= 1

RECURSIVE ReachFrom(_, _)
\* The bins of occ joined to a bin of seen by a path of adjacent bins of occ.
ReachFrom(seen, occ) ==
  LET more == { b \in occ : \E a \in seen : Adjacent(a, b) }
  IN  IF more \subseteq seen THEN seen ELSE ReachFrom(seen \cup more, occ)

NonEmptyBins == { ParticleBin(particles[k]) : k \in 1..Len(particles) }

\* Clustering has run in this iteration and no resampling since.
AfterClustering == pc \in {"estimate", "frame"}

\* C5: after clustering every particle's cluster_id is in
\* [0, num_clusters), and two particles with the same cluster_id lie in
\* bins joined by an 8-connected path of non-empty bins, wherever the
\* particles are (positions off the map are clamped into edge bins).
C5_ClusterIdsAreConnected ==
  AfterClustering =>
    /\ \A k \in 1..Len(particles) :
         particles[k].cluster_id \in 0..(num_clusters - 1)
    /\ \A k1, k2 \in 1..Len(particles) :
         particles[k1].cluster_id = particles[k2].cluster_id =>
           ParticleBin(particles[k2]) \in
             ReachFrom({ParticleBin(particles[k1])}, NonEmptyBins)

\* Two clusters, one of them holding a particle clamped in from off the map.
C5_Witness ==
  /\ pc = "estimate"
  /\ num_clusters = 2
  /\ \E k1, k2 \in 1..Len(particles) :
       /\ particles[k1].cluster_id # particles[k2].cluster_id
       /\ IntOf(particles[k1].x) >= bmap.num_cols

\* A tick (or an iteration of one) has completed, or none has started.
TickCompleted == pc \in {"idle", "frame"}

\* C6: after every tick that produces at least one cluster, best_predicted
\* is the index of a cluster of maximum total_weight, the lowest such index.
C6_BestIsFirstMaximum ==
  (TickCompleted /\ Len(predicted_weights) > 0) =>
    /\ best_predicted \in 0..(Len(predicted_weights) - 1)
    /\ \A i \in 1..Len(predicted_weights) :
         RLe(predicted_weights[i], predicted_weights[best_predicted + 1])
    /\ \A i \in 1..best_predicted :
         RLt(predicted_weights[i], predicted_weights[best_predicted + 1])

\* A completed tick with two clusters, the second the heavier.
C6_Witness ==
  /\ pc = "idle"
  /\ ticks > 0
  /\ Len(predicted_weights) = 2
  /\ best_predicted = 1

\* A completed tick with two clusters of equal weight: the first is best.
C6_TieWitness ==
  /\ pc = "idle"
  /\ ticks > 0
  /\ Len(predicted_weights) = 2
  /\ predicted_weights[1] = predicted_weights[2]
  /\ best_predicted = 0

(***************************************************************************)
(* Properties of the filter at its edges.                                  *)
(***************************************************************************)
EmptyMap == bmap.num_cols = 0 \/ bmap.num_rows = 0

\* C12: on an empty map (W = 0 or H = 0) the filter is constructed and
\* ticks without crashing, and after a tick every particle has weight 0.
C12_EmptyMapFilterRuns ==
  EmptyMap =>
    /\ pc # "crashed"
    /\ (pc = "idle" /\ ticks > 0)
         => \A k \in 1..Len(particles) : particles[k].weight = Zero

InS1 == bmap.map_data = S1.rows /\ config = S1.config

\* C14: in scenario S1 the tick completes; after it every particle inside
\* [0,3) x [0,3) has weight 1, every other particle weight 0, and there is
\* exactly one cluster, of total weight between 0 and NUM_PARTICLES.
C14_S1TickCompletes ==
  InS1 =>
    /\ pc # "crashed"
    /\ (pc = "idle" /\ ticks = 1)
         => /\ \A k \in 1..Len(particles) :
                 particles[k].weight =
                   IF IntOf(particles[k].x) \in 0..2 /\ IntOf(particles[k].y) \in 0..2
                     THEN One ELSE Zero
            /\ Len(predicted_weights) = 1
            /\ RLe(Zero, predicted_weights[1])
            /\ RLe(predicted_weights[1], Rat(config.NUM_PARTICLES, 1))

\* C15: an iteration in which max_weight <= 0 (every observation weight is
\* 0) logs the condition, does not fail, and the tick ends with a non-empty
\* cluster list (on a map that has at least one bin in each direction).
C15_ZeroObservationTickCompletes ==
  (Len(particles) > 0 /\ RLe(max_weight, Zero)
     /\ NumBins(bmap.num_cols, config) > 0 /\ NumBins(bmap.num_rows, config) > 0
     /\ "_normalize_weights" \in {steps[i] : i \in 1..Len(steps)})
    => /\ "max_weight" \in log
       /\ pc # "crashed"
       /\ pc = "frame" => Len(predicted_weights) > 0

\* C16: on a tick whose observation is (None, None, None) the move, turn
\* and reweight steps leave the particles as they are, and the map's
\* region_probs stay as they are.
C16_ExhaustedFeedTickCoasts ==
  [][ (ticks > 0 /\ ret = <<None, None, None>>
         /\ pc \in {"move", "turn", "update_weights"})
        => (particles' = particles /\ bmap' = bmap) ]_vars

\* The state ParticleFilter.__init__ leaves, but for the positions and
\* headings drawn.
AsConstructed ==
  /\ \A k \in 1..Len(particles) :
       particles[k].weight = One /\ particles[k].cluster_id = 0
  /\ frame = 0
  /\ predicted_xs = <<PyIntDiv(bmap.num_cols, 2)>>
  /\ predicted_ys = <<PyIntDiv(bmap.num_rows, 2)>>
  /\ predicted_thetas = <<0>>
  /\ predicted_weights = <<Zero>>
  /\ best_predicted = 0
  /\ ground_truth = None
  /\ bmap.region_probs = BuildingMapInit(bmap.map_data).region_probs
  /\ fp = FeedProcessorInit(feed_in)

\* C18: a tick is all or nothing.  When the first update() call fails the
\* filter, the map and the feed are as construction left them.
C18_FailedTickLeavesNoTrace ==
  (pc = "crashed" /\ ticks = 1) => AsConstructed

\* C19: the bin grid is ceil(W / b) columns by ceil(H / b) rows, and
\* putting the particles into it does not fail.
C19_BinGridIsCeiling ==
  (bmap.num_cols > 0 /\ bmap.num_rows > 0 /\ Len(particles) > 0
     /\ Len(steps) > 0 /\ steps[Len(steps)] = "_estimate_location")
    => /\ ~(pc = "crashed" /\ raised = "IndexError")
       /\ BinGrid(particles, bmap, config).cols =
            CeilToInt(Rat(bmap.num_cols, config.CLUSTER_BIN_WIDTH))
       /\ BinGrid(particles, bmap, config).rows =
            CeilToInt(Rat(bmap.num_rows, config.CLUSTER_BIN_WIDTH))

\* The calls one iteration of update() is to make, in order, at the frame
\* counter value and with the motion it has.
ExpectedSteps ==
  (IF motion # None THEN <<"_move_particles", "_turn_particles">> ELSE <<>>)
  \o (IF config.RANDOM_WALK_FREQUENCY # 0
         /\ frame % config.RANDOM_WALK_FREQUENCY = 0
        THEN <<"_random_walk">> ELSE <<>>)
  \o <<"_update_weights", "_normalize_weights", "_resample",
       "_estimate_location">>

\* C20: the frame counter starts at 0 and counts the inner iterations
\* completed (UPDATES_PER_FRAME per tick); within an iteration the calls
\* are move, turn, random walk, reweight, normalize, resample, estimate in
\* that order, the random walk exactly when the frequency is not 0 and
\* divides the frame counter.
C20_FrameCountsIterationsInOrder ==
  /\ ticks = 0 => frame = 0
  /\ (ticks > 0 /\ pc = "idle") => frame = ticks * config.UPDATES_PER_FRAME
  /\ (ticks > 0 /\ pc # "idle")
       => frame = (ticks - 1) * config.UPDATES_PER_FRAME + iter
  /\ pc \in {"new", "idle"} => steps = <<>>
  /\ pc \notin {"new", "idle"}
       => /\ Len(steps) <= Len(ExpectedSteps)
          /\ steps = SubSeq(ExpectedSteps, 1, Len(steps))
  /\ pc = "frame" => steps = ExpectedSteps

\* An iteration has ended without a random walk because the frame
\* counter is not a multiple of the frequency.
C20_Witness ==
  /\ pc = "frame"
  /\ config.RANDOM_WALK_FREQUENCY = 2
  /\ frame = 1
  /\ steps = <<"_update_weights", "_normalize_weights", "_resample",
               "_estimate_location">>

(***************************************************************************)
(* Properties of the feed with ignore_regions and noise.                   *)
(***************************************************************************)
\* The probability lines of a feed file, in file order.
ProbLines(file) ==
  SelectSeq(file, LAMBDA line : line.prefix = "" /\ Len(line.toks) > 0)

\* [1/k, ..., 1/k].
Uniform(k) == [i \in 1..k |-> Rat(1, k)]

InHalfOpen(v, lo, hi) == RLe(lo, v) /\ RLt(v, hi)

\* C21: a random-walk step displaces each particle by dx, dy in
\* [-D/2, D/2) and turns it by an angle in [-T/2, T/2), D and T being
\* RANDOM_WALK_MAX_DIST and RANDOM_WALK_MAX_THETA (each when positive).
C21_RandomWalkIsHalfOpen ==
  [][ (pc = "random_walk" /\ config.RANDOM_WALK_FREQUENCY # 0
         /\ frame % config.RANDOM_WALK_FREQUENCY = 0)
        => \A k \in 1..Len(particles) :
             LET half_dist  == Rat(config.RANDOM_WALK_MAX_DIST, 2)
                 half_theta == RDiv(config.RANDOM_WALK_MAX_THETA, Rat(2, 1))
             IN  /\ config.RANDOM_WALK_MAX_DIST > 0
                      => /\ InHalfOpen(RSub(particles'[k].x, particles[k].x),
                                       RSub(Zero, half_dist), half_dist)
                         /\ InHalfOpen(RSub(particles'[k].y, particles[k].y),
                                       RSub(Zero, half_dist), half_dist)
                 /\ RLt(Zero, config.RANDOM_WALK_MAX_THETA)
                      => InHalfOpen(RSub(particles'[k].theta, particles[k].theta),
                                    RSub(Zero, half_theta), half_theta) ]_vars

\* floor(q).
Floor(q) == q[1] \div q[2]

\* C22: after _estimate_location the estimate of every cluster is the floor
\* of its weighted mean x, y and heading, and its total weight.
C22_EstimatesAreFloors ==
  pc = "frame" =>
    LET tw == TotalWeights(particles, num_clusters)
    IN  \A c \in 1..num_clusters :
          /\ predicted_xs[c] =
               Floor(RDiv(TotalXs(particles, num_clusters)[c], tw[c]))
          /\ predicted_ys[c] =
               Floor(RDiv(TotalYs(particles, num_clusters)[c], tw[c]))
          /\ predicted_thetas[c] =
               Floor(RDiv(TotalThetas(particles, num_clusters)[c], tw[c]))
          /\ predicted_weights[c] = tw[c]

(***************************************************************************)
(* Properties of the resample step.                                        *)
(***************************************************************************)
\* q has the position, heading and weight of p, and cluster id 0.
IsCloneOf(q, p) ==
  /\ q.x = p.x
  /\ q.y = p.y
  /\ q.theta = p.theta
  /\ q.weight = p.weight
  /\ q.cluster_id = 0

\* C23 as stated: with weight_sum > 0 every particle of the new population
\* is a clone of a particle of positive weight.
C23_ResampleNeverSelectsZeroWeight ==
  [][ (pc = "resample" /\ pc' = "cluster" /\ RLt(Zero, weight_sum))
        => \A k \in 1..Len(particles') :
             \E j \in 1..Len(particles) :
               /\ IsCloneOf(particles'[k], particles[j])
               /\ RLt(Zero, particles[j].weight) ]_vars

\* C23 amended: with weight_sum > 0 every particle of the new population
\* is a clone of a particle that has positive weight when the draw t is
\* positive, and of the particle at index 0, whatever its weight, when
\* t = 0.
C23_ResampleSelectsZeroWeightOnlyAtZero ==
  [][ (pc = "resample" /\ pc' = "cluster" /\ RLt(Zero, weight_sum))
        => \A k \in 1..Len(particles') :
             \E j \in 1..Len(particles) :
               /\ IsCloneOf(particles'[k], particles[j])
               /\ RLt(Zero, targets'[k]) => RLt(Zero, particles[j].weight)
               /\ targets'[k] = Zero => j = 1 ]_vars

\* A resample with weight_sum > 0 has drawn t = 0 for slot 0, t > 0 for
\* slot 1, and slot 0 holds a clone of weight 0.
C23_Witness ==
  /\ pc = "cluster"
  /\ RLt(Zero, weight_sum)
  /\ Len(particles) = 2
  /\ targets[1] = Zero
  /\ particles[1].weight = Zero
  /\ RLt(Zero, targets[2])
  /\ RLt(Zero, particles[2].weight)

(***************************************************************************)
(* Properties of the stored feed.                                          *)
(***************************************************************************)
\* C24: once the feed is parsed, the stored probability vectors, motions
\* and ground truths stay what the parse made them, whatever calls of
\* get_next follow and whatever the noise settings.
C24_GetNextKeepsParsedEntries ==
  fp_pc = "ready" =>
    /\ fp.probability_list = FeedProcessorInit(feed_in).probability_list
    /\ fp.motions = FeedProcessorInit(feed_in).motions
    /\ fp.ground_truths = FeedProcessorInit(feed_in).ground_truths

(***************************************************************************)
(* Cluster labels as connected components.                                 *)
(***************************************************************************)
\* The position of a bin in the row-major order of the labelling loop.
RowMajor(b) == b[2] * NumBins(bmap.num_cols, config) + b[1]

Component(p) == ReachFrom({ParticleBin(p)}, NonEmptyBins)

\* The row-major position of the first bin of the component of particle p.
FirstBin(p) ==
  CHOOSE n \in { RowMajor(b) : b \in Component(p) } :
    \A b \in Component(p) : n <= RowMajor(b)

C25_OrderWitness ==
  /\ pc = "estimate"
  /\ \E k1, k2 \in 1..Len(particles) :
       /\ particles[k1].cluster_id = 0
       /\ particles[k2].cluster_id = 1
       /\ ParticleBin(particles[k1])[2] < ParticleBin(particles[k2])[2]
       /\ ParticleBin(particles[k1])[1] > ParticleBin(particles[k2])[1]

(***************************************************************************)
(* The state between ticks.                                                *)
(***************************************************************************)
InUnit(q) == RLe(Zero, q) /\ RLe(q, One)

\* Region probabilities and WEIGHT_DECAY_RATE all in [0, 1].
UnitInputs ==
  /\ InUnit(config.WEIGHT_DECAY_RATE)
  /\ \A r \in 1..Len(bmap.region_probs) : InUnit(bmap.region_probs[r])

\* C26: after construction and after every completed tick the four
\* predicted lists have the same length, best_predicted is an index into
\* them whenever they are not empty, and, with region probabilities and
\* WEIGHT_DECAY_RATE in [0, 1], every particle weight is in [0, 1].
C26_EstimatesAlignedAndWeightsInUnit ==
  pc = "idle" =>
    /\ Len(predicted_xs) = Len(predicted_weights)
    /\ Len(predicted_ys) = Len(predicted_weights)
    /\ Len(predicted_thetas) = Len(predicted_weights)
    /\ Len(predicted_weights) > 0 =>
         best_predicted \in 0..(Len(predicted_weights) - 1)
    /\ UnitInputs =>
         \A k \in 1..Len(particles) : InUnit(particles[k].weight)

\* A completed tick with two clusters, the last of them the best, and a
\* particle whose weight is strictly between 0 and 1.
C26_Witness ==
  /\ pc = "idle"
  /\ ticks > 0
  /\ UnitInputs
  /\ Len(predicted_xs) = 2
  /\ best_predicted = Len(predicted_xs) - 1
  /\ \E k \in 1..Len(particles) :
       RLt(Zero, particles[k].weight) /\ RLt(particles[k].weight, One)

====
